---- MODULE Spec2Model ----
(***************************************************************************)
(* Model of components of the CSS design system.                           *)
(*                                                                         *)
(* DataTable (components/organisms/DataTable): the column/cell resolver    *)
(* (getCellValue, renderCell), the three-way body (loading skeleton,       *)
(* empty state, data rows) and the row click handler; specification Spec.  *)
(*                                                                         *)
(* Button (components/atoms/Button): the rendered element, its disabled    *)
(* and aria attributes and the click; specification SpecButton.            *)
(*                                                                         *)
(* debounce (lib/utils): the debounced function, its timeout and the       *)
(* clock; specification SpecDebounce, with fairness FairSpecDebounce.      *)
(*                                                                         *)
(* FormField (components/atoms/Input): the label, the cloned children and  *)
(* the helper and error paragraphs; specification SpecFormField.           *)
(*                                                                         *)
(* Input (components/atoms/Input): the input element, its aria attributes  *)
(* and the icon wrapper; specification SpecInput.                          *)
(*                                                                         *)
(* truncate (lib/utils): the function on strings kept as sequences of      *)
(* characters; specification SpecTruncate.                                 *)
(*                                                                         *)
(* SearchBar (components/molecules/SearchBar): the internal value, the     *)
(* change, clear, submit and key handlers, and the browser's implicit      *)
(* submission of the form on Enter; specification SpecSearchBar.           *)
(*                                                                         *)
(* JavaScript values are encoded as strings; the values undefined and null *)
(* and a raised error are the reserved strings below.    A row is a      *)
(* function from its own field names to values.  A rendered element is a   *)
(* record of the attributes the component sets on it.                      *)
(***************************************************************************)
EXTENDS Integers, Sequences, FiniteSets, TLC

VARIABLES
    props,      \* the props of the current render; an omitted prop is absent from DOMAIN props
    output,     \* the element tree returned by the last render: [thead, tbody]
    calls,      \* the caller-supplied functions the last render invoked, in order
    dataReads,  \* the properties of props.data the last render read
    threw,      \* TRUE iff the last render raised
    clicks,     \* the onRowClick invocations made by the last action
    btnProps,   \* Button: the props of the current render
    btnDom,     \* Button: the DOM element the last render produced
    btnClicks,  \* Button: the onClick invocations made by the last action
    btnEvent,   \* Button: what the last action was, "render" or "click"
    dbWait,     \* debounce: the wait of the debounced function, -1 before debounce() is called
    dbNow,      \* debounce: the clock, in milliseconds
    dbTimers,   \* debounce: the timeouts that are set and neither run nor cleared
    dbTimeoutId,\* debounce: the closure's timeoutId, 0 while it is undefined
    dbLog,      \* debounce: the calls of the debounced function and of func, in order
    ffProps,    \* FormField: the props of the current render
    ffOut,      \* FormField: what the last render put inside the div
    inProps,    \* Input: the props of the current render
    inOut,      \* Input: the elements the last render returned, in document order
    trStr,      \* truncate: the str of the last call, as its sequence of characters
    trLength,   \* truncate: the length of the last call
    trResult,   \* truncate: what the last call returned
    sbProps,    \* SearchBar: the props of the current render
    sbInternal, \* SearchBar: the state internalValue
    sbOut,      \* SearchBar: what the last render shows
    sbCalls,    \* SearchBar: the onChange and onSearch invocations made by the last action
    sbEvent     \* SearchBar: what the last action was

tableVars == <<props, output, calls, dataReads, threw, clicks>>

buttonVars == <<btnProps, btnDom, btnClicks, btnEvent>>

debounceVars == <<dbWait, dbNow, dbTimers, dbTimeoutId, dbLog>>

formVars == <<ffProps, ffOut>>

inputVars == <<inProps, inOut>>

truncateVars == <<trStr, trLength, trResult>>

searchVars == <<sbProps, sbInternal, sbOut, sbCalls, sbEvent>>

vars == <<props, output, calls, dataReads, threw, clicks, btnProps, btnDom, btnClicks,
          btnEvent, dbWait, dbNow, dbTimers, dbTimeoutId, dbLog, ffProps, ffOut,
          inProps, inOut,
          trStr, trLength, trResult,
          sbProps, sbInternal, sbOut, sbCalls, sbEvent>>

----------------------------------------------------------------------------
(* Bounds *)

\* the longest data array
MaxRows == 2

\* the most optional props passed to one render
MaxOptional == 2

\* debounce: the clock stops at MaxTime, the debounced function is called at
\* most MaxCalls times
MaxTime == 4

MaxCalls == 3

\* truncate: the strings have at most MaxLen characters
MaxLen == 3

----------------------------------------------------------------------------
(* JavaScript values *)

JSUndefined == "<undefined>"
JSNull == "<null>"
TypeError == "<TypeError>"

\* ToBoolean on the encoded values
Truthy(v) == v \notin {JSUndefined, JSNull, ""}

Digits == <<"0", "1", "2", "3", "4", "5", "6", "7", "8", "9">>

\* String(i), the form React gives a numeric key
ToStr(i) == Digits[i + 1]

\* a lookup that raises on a key the object does not have
LookupStrict(row, key) == IF key \in DOMAIN row THEN row[key] ELSE TypeError

\* row[key] on an object: undefined for a key the object does not have
Lookup(row, key) == IF key \in DOMAIN row THEN row[key] ELSE JSUndefined

RECURSIVE Flatten(_)
Flatten(ss) == IF ss = <<>> THEN <<>> ELSE Head(ss) \o Flatten(Tail(ss))

----------------------------------------------------------------------------
(* cn: clsx drops the falsy inputs, twMerge lets the last class of a       *)
(* conflict group win                                                      *)

ClassGroup(c) == IF c \in {"text-left", "text-center", "text-right"} THEN "text-align" ELSE c

Clsx(inputs) == SelectSeq(inputs, LAMBDA c : c # "")

RECURSIVE TwMerge(_)
TwMerge(cs) ==
    IF cs = <<>> THEN <<>>
    ELSE IF \E j \in 2..Len(cs) : ClassGroup(cs[j]) = ClassGroup(cs[1])
         THEN TwMerge(Tail(cs))
         ELSE <<cs[1]>> \o TwMerge(Tail(cs))

Cn(inputs) == TwMerge(Clsx(inputs))

\* cond && 'cls' as a cn input
When(cond, cls) == IF cond THEN cls ELSE ""

----------------------------------------------------------------------------
(* Inputs: rows, accessor functions, cell renderers, columns *)

\* T = { name: string; status: string; '': string; zip?: string }
RowAlice == ("name" :> "Alice") @@ ("status" :> "active") @@ ("" :> "anon")
RowBob == ("name" :> "Bob") @@ ("status" :> "") @@ ("" :> "guest")

Rows == {RowAlice, RowBob}

\* data: every sequence of at most MaxRows rows
DataValues == UNION {[1..n -> Rows] : n \in 0..MaxRows}

\* (row) => row.status === 'active' ? 'on' : 'off'   and   (row) => undefined
AccessorFns == {"statusLabel", "nothing"}

ApplyAccessor(fn, row) ==
    CASE fn = "statusLabel" -> IF Lookup(row, "status") = "active" THEN "on" ELSE "off"
      [] fn = "nothing" -> JSUndefined

\* a rendered node: the tag that produced it and the value it shows
Node(tag, value) == [tag |-> tag, value |-> value]

\* ({ value }) => `[${value}]`   and   ({ row }) => <Button>Edit {row.name}</Button>
CellFns == {"bracket", "editButton"}

ApplyCell(fn, value, row, index) ==
    CASE fn = "bracket" -> Node("bracket", value)
      [] fn = "editButton" -> Node("Button", Lookup(row, "name"))

NoAccessor == [kind |-> "none", arg |-> ""]
KeyAccessor(key) == [kind |-> "key", arg |-> key]
FnAccessor(fn) == [kind |-> "fn", arg |-> fn]

\* a Column<T>; cell = "" and align = "" stand for an absent field
Column(id, accessor, cell, align) ==
    [id |-> id, header |-> id, accessor |-> accessor, cell |-> cell, align |-> align]

ColName == Column("name", KeyAccessor("name"), "", "")
ColStatus == Column("status", KeyAccessor("status"), "bracket", "")
ColActions == Column("actions", NoAccessor, "editButton", "right")
ColBlank == Column("blank", NoAccessor, "", "")
ColZip == Column("zip", KeyAccessor("zip"), "", "center")
ColAnon == Column("anon", KeyAccessor(""), "", "")
ColAnonCell == Column("anonCell", KeyAccessor(""), "bracket", "")
ColLabel == Column("label", FnAccessor("statusLabel"), "", "")
ColLabelCell == Column("labelCell", FnAccessor("statusLabel"), "bracket", "")
ColNothing == Column("nothing", FnAccessor("nothing"), "", "")

ColumnsValues ==
    { <<>>,
      <<ColName, ColStatus>>,
      <<ColActions, ColBlank, ColZip, ColNothing>>,
      <<ColAnon, ColAnonCell>>,
      <<ColLabel, ColLabelCell>> }

\* the value of `if (column.accessor)`: a function is truthy, a key is truthy unless it is ''
AccessorTruthy(accessor) ==
    \/ accessor.kind = "fn"
    \/ accessor.kind = "key" /\ Truthy(accessor.arg)

\* an invocation of a caller-supplied function
Call(fn, name, column, row, index, value) ==
    [fn |-> fn, name |-> name, column |-> column, row |-> row, index |-> index, value |-> value]

----------------------------------------------------------------------------
(* The column/cell resolver *)

\* getCellValue without the typeof test: a function accessor is used as a key
GetCellValueNoTypeof(row, column) ==
    IF AccessorTruthy(column.accessor)
    THEN [value |-> Lookup(row, column.accessor.arg), calls |-> <<>>]
    ELSE [value |-> JSNull, calls |-> <<>>]

\* getCellValue: the value, and the accessor invocation made to get it
GetCellValue(row, column) ==
    IF AccessorTruthy(column.accessor)
    THEN IF column.accessor.kind = "fn"
         THEN [value |-> ApplyAccessor(column.accessor.arg, row),
               calls |-> <<Call("accessor", column.accessor.arg, column.id, row, -1, "")>>]
         ELSE [value |-> Lookup(row, column.accessor.arg), calls |-> <<>>]
    ELSE [value |-> JSNull, calls |-> <<>>]

\* renderCell that shows undefined where there is neither accessor nor renderer
CellContentUndefined(got, row, column, index) ==
    IF column.cell # ""
    THEN [node |-> ApplyCell(column.cell, got.value, row, index),
          calls |-> got.calls \o <<Call("cell", column.cell, column.id, row, index, got.value)>>,
          threw |-> FALSE]
    ELSE [node |-> Node("value", IF column.accessor.kind = "none" THEN JSUndefined ELSE got.value),
          calls |-> got.calls, threw |-> FALSE]

\* the rest of renderCell once `value` is computed: the content of the cell,
\* the invocations made, whether it raised
CellContent(got, row, column, index) ==
    IF got.value = TypeError
    THEN [node |-> Node("error", TypeError), calls |-> got.calls, threw |-> TRUE]
    ELSE IF column.cell # ""
    THEN [node |-> ApplyCell(column.cell, got.value, row, index),
          calls |-> got.calls \o <<Call("cell", column.cell, column.id, row, index, got.value)>>,
          threw |-> FALSE]
    ELSE [node |-> Node("value", got.value), calls |-> got.calls, threw |-> FALSE]

\* renderCell that resolves the value a second time for the cell renderer
RenderCellResolvesTwice(row, column, index) ==
    IF column.cell # ""
    THEN CellContent([GetCellValue(row, column) EXCEPT !.calls = @ \o @], row, column, index)
    ELSE CellContent(GetCellValue(row, column), row, column, index)

\* renderCell: const value = getCellValue(row, column); ...
RenderCell(row, column, index) == CellContent(GetCellValue(row, column), row, column, index)

----------------------------------------------------------------------------
(* Props *)

OptionalProps == {"loading", "emptyState", "bordered", "striped", "hoverable", "getRowKey", "onRowClick"}

\* destructuring with a default: an omitted prop takes the default
Prop(p, k, default) == IF k \in DOMAIN p THEN p[k] ELSE default

With(p, k, v) == (k :> v) @@ p
Without(p, k) == [x \in DOMAIN p \ {k} |-> p[x]]

Loading(p) == Prop(p, "loading", FALSE)
EmptyState(p) == Prop(p, "emptyState", JSUndefined)
Bordered(p) == Prop(p, "bordered", FALSE)
Striped(p) == Prop(p, "striped", FALSE)
HoverableDefaultFalse(p) == Prop(p, "hoverable", FALSE)
Hoverable(p) == Prop(p, "hoverable", TRUE)

\* (row) => row.name
ApplyGetRowKey(fn, row, index) == Lookup(row, "name")

----------------------------------------------------------------------------
(* The table renderer *)

SkeletonRows == 5

Td(key, colSpan, className, children) ==
    [key |-> key, colSpan |-> colSpan, className |-> className, children |-> children]

Tr(type, key, className, onClick, cells) ==
    [type |-> type, key |-> key, className |-> className, onClick |-> onClick, cells |-> cells]

NoHandler == [attached |-> FALSE, invokes |-> <<>>]

\* a SkeletonRow that never renders an empty row
SkeletonRowAtLeastOne(columns) ==
    [i \in 1..(IF columns = 0 THEN 1 ELSE columns) |->
        Td(ToStr(i - 1), 1, <<"p-4">>, Node("div", "animate-pulse"))]

\* SkeletonRow: one placeholder cell per column
SkeletonRow(columns) ==
    [i \in 1..columns |-> Td(ToStr(i - 1), 1, <<"p-4">>, Node("div", "animate-pulse"))]

\* isEmpty with the operands swapped: data.length === 0 && !loading
IsEmptyLengthFirst(loading, data) ==
    [value |-> Len(data) = 0 /\ ~loading, reads |-> {"length"}]

\* const isEmpty = !loading && data.length === 0, and what evaluating it reads of data
IsEmpty(loading, data) ==
    IF ~loading
    THEN [value |-> Len(data) = 0, reads |-> {"length"}]
    ELSE [value |-> FALSE, reads |-> {}]

AlignClasses(column) ==
    <<When(column.align = "center", "text-center"), When(column.align = "right", "text-right")>>

BorderClasses(p) ==
    <<When(Bordered(p), "border-r"), When(Bordered(p), "last:border-r-0")>>

\* the header row: one th per column
THead(p) ==
    [j \in 1..Len(p.columns) |->
        Td(p.columns[j].id, 1,
           Cn(<<"h-12", "px-4", "text-left", "align-middle", "font-medium", "text-neutral-500">>
              \o AlignClasses(p.columns[j]) \o BorderClasses(p)),
           Node("header", p.columns[j].header))]

\* a loading branch with one skeleton row per data row
LoadingBodyPerRow(p) ==
    [rows |-> [i \in 1..Len(p.data) |->
                  Tr("SkeletonRow", ToStr(i - 1), <<>>, NoHandler, SkeletonRow(Len(p.columns)))],
     calls |-> <<>>, reads |-> {"length"}, threw |-> FALSE]

\* the loading branch
LoadingBody(p) ==
    [rows |-> [i \in 1..SkeletonRows |->
                  Tr("SkeletonRow", ToStr(i - 1), <<>>, NoHandler, SkeletonRow(Len(p.columns)))],
     calls |-> <<>>, reads |-> {}, threw |-> FALSE]

\* emptyState || <div>No data available</div>
EmptyContent(emptyState) ==
    IF Truthy(emptyState) THEN Node("emptyState", emptyState)
    ELSE Node("div", "No data available")

\* an empty branch whose cell has no colSpan
EmptyBodyNoSpan(p) ==
    [rows |-> <<Tr("tr", JSUndefined, <<>>, NoHandler,
                   <<Td(JSUndefined, 1, <<"h-24", "text-center">>,
                        EmptyContent(EmptyState(p)))>>)>>,
     calls |-> <<>>, reads |-> {}, threw |-> FALSE]

\* the empty branch
EmptyBody(p) ==
    [rows |-> <<Tr("tr", JSUndefined, <<>>, NoHandler,
                   <<Td(JSUndefined, Len(p.columns), <<"h-24", "text-center">>,
                        EmptyContent(EmptyState(p)))>>)>>,
     calls |-> <<>>, reads |-> {}, threw |-> FALSE]

\* a row key that is always the position
RowKeyIndexOnly(p, row, index) == [key |-> ToStr(index), calls |-> <<>>]

\* const key = getRowKey ? getRowKey(row, index) : index, and the invocation made
RowKey(p, row, index) ==
    IF "getRowKey" \in DOMAIN p
    THEN [key |-> ApplyGetRowKey(p.getRowKey, row, index),
          calls |-> <<Call("getRowKey", p.getRowKey, "", row, index, "")>>]
    ELSE [key |-> ToStr(index), calls |-> <<>>]

\* a row handler that passes the 1-based position
RowOnClickOneBased(p, row, index) ==
    [attached |-> TRUE,
     invokes |-> IF "onRowClick" \in DOMAIN p
                 THEN <<Call("onRowClick", p.onRowClick, "", row, index + 1, "")>>
                 ELSE <<>>]

\* onClick={() => onRowClick?.(row, index)}: the invocations the handler makes when run
RowOnClick(p, row, index) ==
    [attached |-> TRUE,
     invokes |-> IF "onRowClick" \in DOMAIN p
                 THEN <<Call("onRowClick", p.onRowClick, "", row, index, "")>>
                 ELSE <<>>]

\* the <tr> of a data row, given the results of renderCell for its columns
DataTr(p, row, index, cells) ==
    LET keyCalls == RowKey(p, row, index).calls
        key == RowKey(p, row, index).key
        onClick == RowOnClick(p, row, index)
    IN [tr |-> Tr("tr", key,
                  Cn(<<"border-b", "transition-colors",
                       When(Striped(p) /\ index % 2 = 1, "bg-neutral-50"),
                       When(Hoverable(p), "hover:bg-neutral-50"),
                       When("onRowClick" \in DOMAIN p, "cursor-pointer")>>),
                  onClick,
                  [j \in 1..Len(p.columns) |->
                      Td(p.columns[j].id, 1,
                         Cn(<<"p-4", "align-middle">> \o AlignClasses(p.columns[j]) \o BorderClasses(p)),
                         cells[j].node)]),
        calls |-> keyCalls \o Flatten([j \in 1..Len(p.columns) |-> cells[j].calls]),
        threw |-> \E j \in 1..Len(p.columns) : cells[j].threw]

\* the callback of data.map for the row at (0-based) index
DataRow(p, row, index) ==
    DataTr(p, row, index, [j \in 1..Len(p.columns) |-> RenderCell(row, p.columns[j], index)])

\* the array data.map returns, as the body of the table
MappedBody(mapped) ==
    [rows |-> [i \in 1..Len(mapped) |-> mapped[i].tr],
     calls |-> Flatten([i \in 1..Len(mapped) |-> mapped[i].calls]),
     reads |-> {"map"},
     threw |-> \E i \in 1..Len(mapped) : mapped[i].threw]

\* a data branch that renders the rows last to first
DataBodyReversed(p) ==
    MappedBody([i \in 1..Len(p.data) |-> DataRow(p, p.data[Len(p.data) + 1 - i], i - 1)])

\* a data branch that leaves out the odd rows when striped
DataBodyStripedSkips(p) ==
    IF Striped(p)
    THEN MappedBody([i \in 1..((Len(p.data) + 1) \div 2) |-> DataRow(p, p.data[2 * i - 1], 2 * i - 2)])
    ELSE MappedBody([i \in 1..Len(p.data) |-> DataRow(p, p.data[i], i - 1)])

\* the data branch: data.map((row, index) => ...)
DataBody(p) == MappedBody([i \in 1..Len(p.data) |-> DataRow(p, p.data[i], i - 1)])

\* a body without the empty branch: loading ? skeleton : data rows
TBodyNoEmpty(p) ==
    LET isEmpty == IsEmpty(Loading(p), p.data)
    IN [(IF Loading(p) THEN LoadingBody(p) ELSE DataBody(p))
        EXCEPT !.reads = isEmpty.reads \cup @]

\* {loading ? skeleton : isEmpty ? empty state : data rows}
TBody(p) ==
    LET isEmpty == IsEmpty(Loading(p), p.data)
    IN [(IF Loading(p) THEN LoadingBody(p)
         ELSE IF isEmpty.value THEN EmptyBody(p)
         ELSE DataBody(p))
        EXCEPT !.reads = isEmpty.reads \cup @]

\* the <table> around a body; a render that raised returns no tree
Table(p, body) ==
    [output |-> IF body.threw THEN [thead |-> <<>>, tbody |-> <<>>]
                ELSE [thead |-> THead(p), tbody |-> body.rows],
     calls |-> body.calls, reads |-> body.reads, threw |-> body.threw]

\* one call of the DataTable function component
Render(p) == Table(p, TBody(p))

----------------------------------------------------------------------------
(* Button *)

\* the optional props of Button; ariaDisabled and ariaBusy are the
\* caller-supplied attributes aria-disabled and aria-busy, which with onClick
\* land in the rest props
ButtonOptionalProps ==
    {"disabled", "loading", "asChild", "onClick", "ariaDisabled", "ariaBusy", "leftIcon", "rightIcon"}

ButtonRestProps == {"onClick", "ariaDisabled", "ariaBusy"}

\* the value React writes for an aria attribute
AttrString(b) == IF b THEN "true" ELSE "false"

\* const isDisabled = disabled || loading
IsDisabled(p) == Prop(p, "disabled", FALSE) \/ Prop(p, "loading", FALSE)

\* the attributes Comp receives: disabled, aria-disabled, aria-busy, then {...props}
ButtonAttrs(p) ==
    [k \in ButtonRestProps \cap DOMAIN p |-> p[k]]
    @@ ("disabled" :> IsDisabled(p))
    @@ ("ariaDisabled" :> AttrString(IsDisabled(p)))
    @@ ("ariaBusy" :> AttrString(Prop(p, "loading", FALSE)))

\* the fragment inside Comp
ButtonContent(p) ==
    IF Prop(p, "loading", FALSE)
    THEN <<Node("Spinner", "animate-spin"), Node("span", p.children)>>
    ELSE (IF "leftIcon" \in DOMAIN p THEN <<Node("span", p.leftIcon)>> ELSE <<>>)
         \o <<Node("children", p.children)>>
         \o (IF "rightIcon" \in DOMAIN p THEN <<Node("span", p.rightIcon)>> ELSE <<>>)

\* Slot merges the props it is given into its one child element; the child
\* here is the fragment, which keeps nothing but its children, so the element
\* that reaches the DOM is the caller's own child with its own props
SlotDom(attrs, content) ==
    [tag |-> "a", attrs |-> ("disabled" :> FALSE), content |-> content]

\* const Comp = asChild ? Slot : 'button', and the element it puts in the DOM
ButtonRender(p) ==
    IF Prop(p, "asChild", FALSE)
    THEN SlotDom(ButtonAttrs(p), ButtonContent(p))
    ELSE [tag |-> "button", attrs |-> ButtonAttrs(p), content |-> ButtonContent(p)]

\* the children the caller writes: a link under asChild, text otherwise
ButtonChildren(p) == IF Prop(p, "asChild", FALSE) THEN "<a href=/about>About</a>" ELSE "Click me"

ButtonRendered(p) ==
    \E q \in {With(p, "children", ButtonChildren(p))} :
        /\ btnProps' = q
        /\ btnDom' = ButtonRender(q)
        /\ btnClicks' = <<>>
        /\ btnEvent' = "render"
        /\ UNCHANGED <<tableVars, debounceVars, formVars, inputVars, truncateVars, searchVars>>

ButtonInitialProps == ("children" :> "Click me")

ButtonInit ==
    /\ btnProps = ButtonInitialProps
    /\ btnDom = ButtonRender(ButtonInitialProps)
    /\ btnClicks = <<>>
    /\ btnEvent = "render"

ButtonSetFlag ==
    \E k \in {"disabled", "loading", "asChild"} : \E b \in BOOLEAN :
        ButtonRendered(With(btnProps, k, b))

ButtonSetAria ==
    \E k \in {"ariaDisabled", "ariaBusy"} : \E v \in {"true", "false"} :
        ButtonRendered(With(btnProps, k, v))

ButtonSetOnClick == ButtonRendered(With(btnProps, "onClick", "handleClick"))

ButtonSetIcon == \E k \in {"leftIcon", "rightIcon"} : ButtonRendered(With(btnProps, k, "+"))

ButtonOmitProp ==
    \E k \in ButtonOptionalProps \cap DOMAIN btnProps : ButtonRendered(Without(btnProps, k))

\* a user click on the rendered element: a disabled <button> dispatches no
\* click; otherwise the onClick on the element, if any, runs once
ButtonClick ==
    /\ btnClicks' =
          IF btnDom.tag = "button" /\ btnDom.attrs.disabled THEN <<>>
          ELSE IF "onClick" \in DOMAIN btnDom.attrs THEN <<btnDom.attrs.onClick>>
          ELSE <<>>
    /\ btnEvent' = "click"
    /\ UNCHANGED <<btnProps, btnDom>>
    /\ UNCHANGED <<tableVars, debounceVars, formVars, inputVars, truncateVars, searchVars>>

ButtonNext ==
    \/ ButtonSetFlag
    \/ ButtonSetAria
    \/ ButtonSetOnClick
    \/ ButtonSetIcon
    \/ ButtonOmitProp
    \/ ButtonClick

----------------------------------------------------------------------------
(* debounce *)

\* the waits debounce is created with, and the arguments of the calls
DebounceWaits == {0, 1, 2}

DebounceArgs == {"a", "b"}

Event(kind, time, args, id) == [kind |-> kind, time |-> time, args |-> args, id |-> id]

\* setTimeout(callback, wait): the timeout and the identifier it returns;
\* identifiers are handed out in increasing order
SetTimeout(timers, id, args) == timers \cup {[id |-> id, due |-> dbNow + dbWait, args |-> args]}

\* clearTimeout(id): nothing happens for an identifier that is not set
ClearTimeout(timers, id) == {t \in timers : t.id # id}

\* debounce(func, wait)
DebounceCreate ==
    /\ dbWait = -1
    /\ \E w \in DebounceWaits : dbWait' = w
    /\ UNCHANGED <<dbNow, dbTimers, dbTimeoutId, dbLog>>
    /\ UNCHANGED <<tableVars, buttonVars, formVars, inputVars, truncateVars, searchVars>>

DebouncedNoClear(args) ==
    /\ dbWait >= 0
    /\ dbTimeoutId < MaxCalls
    /\ dbNow + dbWait <= MaxTime
    /\ dbTimers' = SetTimeout(dbTimers, dbTimeoutId + 1, args)
    /\ dbTimeoutId' = dbTimeoutId + 1
    /\ dbLog' = Append(dbLog, Event("call", dbNow, args, dbTimeoutId + 1))
    /\ UNCHANGED <<dbWait, dbNow>>
    /\ UNCHANGED <<tableVars, buttonVars, formVars, inputVars, truncateVars, searchVars>>

\* the function debounce returns, called with args: clearTimeout(timeoutId);
\* timeoutId = setTimeout(() => func.apply(this, args), wait)
Debounced(args) ==
    /\ dbWait >= 0
    /\ dbTimeoutId < MaxCalls
    /\ dbNow + dbWait <= MaxTime
    /\ dbTimers' = SetTimeout(ClearTimeout(dbTimers, dbTimeoutId), dbTimeoutId + 1, args)
    /\ dbTimeoutId' = dbTimeoutId + 1
    /\ dbLog' = Append(dbLog, Event("call", dbNow, args, dbTimeoutId + 1))
    /\ UNCHANGED <<dbWait, dbNow>>
    /\ UNCHANGED <<tableVars, buttonVars, formVars, inputVars, truncateVars, searchVars>>

DebounceCall == \E args \in DebounceArgs : Debounced(args)

\* the event loop runs a timeout whose delay has passed: func.apply(this, args)
DebounceFire ==
    \E t \in dbTimers :
        /\ dbNow >= t.due
        /\ dbTimers' = dbTimers \ {t}
        /\ dbLog' = Append(dbLog, Event("invoke", dbNow, t.args, t.id))
        /\ UNCHANGED <<dbWait, dbNow, dbTimeoutId>>
        /\ UNCHANGED <<tableVars, buttonVars, formVars, inputVars, truncateVars, searchVars>>

\* a millisecond passes
DebounceTick ==
    /\ dbNow < MaxTime
    /\ dbNow' = dbNow + 1
    /\ UNCHANGED <<dbWait, dbTimers, dbTimeoutId, dbLog>>
    /\ UNCHANGED <<tableVars, buttonVars, formVars, inputVars, truncateVars, searchVars>>

DebounceInit ==
    /\ dbWait = -1
    /\ dbNow = 0
    /\ dbTimers = {}
    /\ dbTimeoutId = 0
    /\ dbLog = <<>>

DebounceNext ==
    \/ DebounceCreate
    \/ DebounceCall
    \/ DebounceFire
    \/ DebounceTick

----------------------------------------------------------------------------
(* FormField *)

\* React.useId()
UseId == ":r0:"

FormFieldOptionalProps == {"label", "helperText", "error", "required", "htmlFor"}

\* a React element of the given type with the given props, and a text child
Element(type, elProps) == [type |-> type, props |-> elProps]

Text(value) == [type |-> "#text", props |-> ("nodeValue" :> value)]

IsValidElement(child) == child.type # "#text"

NoProps == [k \in {} |-> TRUE]

\* the children FormField is given; aria-describedby is kept as the list of
\* ids it names
ChildrenValues ==
    { <<Element("Input", ("type" :> "email"))>>,
      <<Element("Input", ("type" :> "email") @@ ("ariaInvalid" :> FALSE))>>,
      <<Element("Input", ("type" :> "email") @@ ("ariaDescribedby" :> <<"email-hint">>))>>,
      <<Element("Input", ("type" :> "email") @@ ("id" :> "email-input"))>>,
      <<Text("plain text")>>,
      <<Element("Input", ("type" :> "email")), Text("plain text")>> }

\* const inputId = htmlFor || id
InputId(p) == IF Truthy(Prop(p, "htmlFor", JSUndefined)) THEN p.htmlFor ELSE UseId

\* const helperId = helperText ? `${inputId}-helper` : undefined
HelperId(p) ==
    IF Truthy(Prop(p, "helperText", JSUndefined)) THEN InputId(p) \o "-helper" ELSE JSUndefined

\* const errorId = error ? `${inputId}-error` : undefined
ErrorId(p) ==
    IF Truthy(Prop(p, "error", JSUndefined)) THEN InputId(p) \o "-error" ELSE JSUndefined

\* [helperId, errorId].filter(Boolean)
DescribedBy(p) == SelectSeq(<<HelperId(p), ErrorId(p)>>, Truthy)

\* the props FormField writes before ...child.props; an aria-describedby of
\* undefined (the empty join) is no attribute
InjectedProps(p) ==
    ("id" :> InputId(p))
    @@ ("ariaInvalid" :> Truthy(Prop(p, "error", JSUndefined)))
    @@ (IF DescribedBy(p) # <<>> THEN ("ariaDescribedby" :> DescribedBy(p)) ELSE NoProps)

\* React.cloneElement(element, config): config over the element's props
CloneElement(element, config) == [element EXCEPT !.props = config @@ element.props]

\* the callback of React.Children.map: the config ends with ...child.props
EnhanceChild(p, child) ==
    IF IsValidElement(child)
    THEN CloneElement(child, child.props @@ InjectedProps(p))
    ELSE child

EnhancedChildren(p) == [i \in 1..Len(p.children) |-> EnhanceChild(p, p.children[i])]

\* {label && <Label htmlFor={inputId} required={required}>}
FormFieldLabel(p) ==
    IF Truthy(Prop(p, "label", JSUndefined))
    THEN <<Element("Label", ("htmlFor" :> InputId(p))
                            @@ ("required" :> Prop(p, "required", FALSE))
                            @@ ("text" :> p.label))>>
    ELSE <<>>

\* {helperText && !error && <p id={helperId}>}
FormFieldHelper(p) ==
    IF Truthy(Prop(p, "helperText", JSUndefined)) /\ ~Truthy(Prop(p, "error", JSUndefined))
    THEN <<Element("p", ("id" :> HelperId(p)) @@ ("text" :> p.helperText))>>
    ELSE <<>>

\* {error && <p id={errorId} role="alert">}
FormFieldError(p) ==
    IF Truthy(Prop(p, "error", JSUndefined))
    THEN <<Element("p", ("id" :> ErrorId(p)) @@ ("role" :> "alert") @@ ("text" :> p.error))>>
    ELSE <<>>

\* what the div holds, in order: label, children, helper text, error
FormFieldRender(p) ==
    [label |-> FormFieldLabel(p), children |-> EnhancedChildren(p),
     helper |-> FormFieldHelper(p), error |-> FormFieldError(p)]

FormFieldRendered(p) ==
    /\ ffProps' = p
    /\ ffOut' = FormFieldRender(p)
    /\ UNCHANGED <<tableVars, buttonVars, debounceVars, inputVars, truncateVars, searchVars>>

FormFieldInitialProps == ("children" :> <<Element("Input", ("type" :> "email"))>>)

FormFieldInit ==
    /\ ffProps = FormFieldInitialProps
    /\ ffOut = FormFieldRender(FormFieldInitialProps)

FormFieldSetChildren == \E c \in ChildrenValues : FormFieldRendered(With(ffProps, "children", c))

FormFieldSetLabel == FormFieldRendered(With(ffProps, "label", "Email"))

FormFieldSetHelperText == FormFieldRendered(With(ffProps, "helperText", "We never share it"))

FormFieldSetError ==
    \E e \in {"", "Please enter a valid email"} : FormFieldRendered(With(ffProps, "error", e))

FormFieldSetRequired == \E b \in BOOLEAN : FormFieldRendered(With(ffProps, "required", b))

FormFieldSetHtmlFor == FormFieldRendered(With(ffProps, "htmlFor", "email"))

FormFieldOmitProp ==
    \E k \in FormFieldOptionalProps \cap DOMAIN ffProps : FormFieldRendered(Without(ffProps, k))

FormFieldNext ==
    \/ FormFieldSetChildren
    \/ FormFieldSetLabel
    \/ FormFieldSetHelperText
    \/ FormFieldSetError
    \/ FormFieldSetRequired
    \/ FormFieldSetHtmlFor
    \/ FormFieldOmitProp

----------------------------------------------------------------------------
(* Input *)

InputOptionalProps ==
    {"error", "variant", "startIcon", "endIcon", "placeholder", "ariaDescribedby"}

\* what lands in ...props
InputRestProps == {"placeholder", "ariaDescribedby"}

\* const errorId = error ? `${inputId}-error` : undefined, inputId = React.useId()
InputErrorId(p) ==
    IF Truthy(Prop(p, "error", JSUndefined)) THEN UseId \o "-error" ELSE JSUndefined

\* const computedVariant = error ? 'error' : variant; cva's default variant is 'default'
ComputedVariant(p) ==
    IF Truthy(Prop(p, "error", JSUndefined)) THEN "error" ELSE Prop(p, "variant", "default")

\* the <input>: type, className, aria-invalid, aria-describedby, then {...props};
\* an aria-describedby of undefined is no attribute
InputElement(p, classes) ==
    Element("input",
            [k \in InputRestProps \cap DOMAIN p |-> p[k]]
            @@ ("type" :> "text")
            @@ ("className" :> Cn(<<"variant-" \o ComputedVariant(p)>> \o classes))
            @@ ("ariaInvalid" :> Truthy(Prop(p, "error", JSUndefined)))
            @@ (IF Truthy(InputErrorId(p))
                THEN ("ariaDescribedby" :> <<InputErrorId(p)>>) ELSE NoProps))

IconDiv(icon) == Element("div", ("text" :> icon))

\* Input: with an icon the input sits between the icon divs, otherwise alone
InputRender(p) ==
    IF "startIcon" \in DOMAIN p \/ "endIcon" \in DOMAIN p
    THEN (IF "startIcon" \in DOMAIN p THEN <<IconDiv(p.startIcon)>> ELSE <<>>)
         \o <<InputElement(p, <<When("startIcon" \in DOMAIN p, "pl-10"),
                               When("endIcon" \in DOMAIN p, "pr-10")>>)>>
         \o (IF "endIcon" \in DOMAIN p THEN <<IconDiv(p.endIcon)>> ELSE <<>>)
    ELSE <<InputElement(p, <<>>)>>

InputRendered(p) ==
    /\ inProps' = p
    /\ inOut' = InputRender(p)
    /\ UNCHANGED <<tableVars, buttonVars, debounceVars, formVars, truncateVars, searchVars>>

InputInitialProps == NoProps

InputInit ==
    /\ inProps = InputInitialProps
    /\ inOut = InputRender(InputInitialProps)

InputSetError ==
    \E e \in {"", "Invalid email address"} : InputRendered(With(inProps, "error", e))

InputSetVariant == \E v \in {"default", "success"} : InputRendered(With(inProps, "variant", v))

InputSetIcon == \E k \in {"startIcon", "endIcon"} : InputRendered(With(inProps, k, "icon"))

InputSetPlaceholder == InputRendered(With(inProps, "placeholder", "Enter your email"))

InputSetDescribedBy == InputRendered(With(inProps, "ariaDescribedby", <<"email-hint">>))

InputOmitProp ==
    \E k \in InputOptionalProps \cap DOMAIN inProps : InputRendered(Without(inProps, k))

InputNext ==
    \/ InputSetError
    \/ InputSetVariant
    \/ InputSetIcon
    \/ InputSetPlaceholder
    \/ InputSetDescribedBy
    \/ InputOmitProp

----------------------------------------------------------------------------
(* truncate *)

\* the characters of the strings: two letters and the space
Chars == {"a", "b", " "}

WhiteSpace == {" "}

Strings == UNION {[1..n -> Chars] : n \in 0..MaxLen}

\* the lengths the function is called with, negative ones included
Lengths == (0 - MaxLen)..(MaxLen + 1)

\* a relative index of slice: a negative one counts from the end
SliceIndex(len, i) == IF i < 0 THEN (IF len + i < 0 THEN 0 ELSE len + i)
                      ELSE IF i > len THEN len ELSE i

\* str.slice(start, end)
Slice(str, start, end) ==
    SubSeq(str, SliceIndex(Len(str), start) + 1, SliceIndex(Len(str), end))

RECURSIVE TrimStart(_)
TrimStart(str) ==
    IF str # <<>> /\ Head(str) \in WhiteSpace THEN TrimStart(Tail(str)) ELSE str

RECURSIVE TrimEnd(_)
TrimEnd(str) ==
    IF str # <<>> /\ str[Len(str)] \in WhiteSpace
    THEN TrimEnd(SubSeq(str, 1, Len(str) - 1)) ELSE str

\* str.trim()
Trim(str) == TrimEnd(TrimStart(str))

Ellipsis == <<".", ".", ".">>

\* truncate(str, length)
Truncate(str, length) ==
    IF Len(str) <= length THEN str
    ELSE Trim(Slice(str, 0, length)) \o Ellipsis

TruncateCall ==
    \E str \in Strings : \E length \in Lengths :
        /\ trStr' = str
        /\ trLength' = length
        /\ trResult' = Truncate(str, length)
        /\ UNCHANGED <<tableVars, buttonVars, debounceVars, formVars, inputVars, searchVars>>

TruncateInit ==
    /\ trStr = <<>>
    /\ trLength = 0
    /\ trResult = Truncate(<<>>, 0)

TruncateNext == TruncateCall

----------------------------------------------------------------------------
(* SearchBar *)

SearchBarOptionalProps ==
    {"value", "onChange", "onSearch", "showClear", "showButton", "loading", "onKeyDown"}

\* a value prop: a string or a number
StringValue(str) == [type |-> "string", str |-> str, num |-> 0]

NumberValue(num) == [type |-> "number", str |-> "", num |-> num]

ValueProps == {StringValue(""), StringValue("ab"), NumberValue(0)}

\* String(value)
StringOf(v) == IF v.type = "number" THEN ToStr(v.num) ELSE v.str

\* the texts a change event carries
Texts == {"", "a", "ab"}

Keys == {"Enter", "Escape", "a"}

\* an invocation of a caller's callback, and the handler that made it
SearchCall(fn, arg, via) == [fn |-> fn, arg |-> arg, via |-> via]

\* const searchValue = value !== undefined ? String(value) : internalValue
SearchValue(p, internal) == IF "value" \in DOMAIN p THEN StringOf(p.value) ELSE internal

\* handleChange that stores the text in controlled mode too
HandleChangeAlwaysStores(p, internal, text) ==
    [internal |-> text,
     calls |-> IF "onChange" \in DOMAIN p THEN <<SearchCall("onChange", text, "change")>> ELSE <<>>]

\* handleChange: newValue = e.target.value
HandleChange(p, internal, text) ==
    [internal |-> IF "value" \notin DOMAIN p THEN text ELSE internal,
     calls |-> IF "onChange" \in DOMAIN p THEN <<SearchCall("onChange", text, "change")>> ELSE <<>>]

\* handleClear that leaves the internal value alone
HandleClearKeepsValue(p, internal) ==
    [internal |-> internal,
     calls |-> IF "onChange" \in DOMAIN p THEN <<SearchCall("onChange", "", "clear")>> ELSE <<>>]

\* handleClear
HandleClear(p, internal) ==
    [internal |-> IF "value" \notin DOMAIN p THEN "" ELSE internal,
     calls |-> IF "onChange" \in DOMAIN p THEN <<SearchCall("onChange", "", "clear")>> ELSE <<>>]

\* handleSubmit: e.preventDefault(); onSearch?.(searchValue)
HandleSubmit(p, internal) ==
    [prevented |-> TRUE,
     calls |-> IF "onSearch" \in DOMAIN p
               THEN <<SearchCall("onSearch", SearchValue(p, internal), "submit")>> ELSE <<>>]

\* handleKeyDown: if (e.key === 'Enter' && !showButton) onSearch?.(searchValue)
HandleKeyDown(p, internal, key) ==
    IF key = "Enter" /\ ~Prop(p, "showButton", FALSE) /\ "onSearch" \in DOMAIN p
    THEN <<SearchCall("onSearch", SearchValue(p, internal), "keydown")>>
    ELSE <<>>

\* a clear button that ignores the search value
ClearButtonShownAlways(p, internal) == Prop(p, "showClear", FALSE)

\* showClear && searchValue
ClearButtonShown(p, internal) == Prop(p, "showClear", FALSE) /\ SearchValue(p, internal) # ""

\* the form: the Input with its value and key handler (onKeyDown={handleKeyDown}
\* then {...props}), the clear button, and the submit Button
SearchBarRender(p, internal) ==
    [value |-> SearchValue(p, internal),
     onKeyDown |-> Prop(p, "onKeyDown", "handleKeyDown"),
     className |-> Cn(<<"pl-10", When(ClearButtonShown(p, internal), "pr-10")>>),
     clearButton |-> ClearButtonShown(p, internal),
     submitButton |-> IF Prop(p, "showButton", FALSE)
                      THEN <<[disabled |-> IsDisabled(("loading" :> Prop(p, "loading", FALSE)))]>>
                      ELSE <<>>]

SearchEvent(kind, text, submits, prevented) ==
    [kind |-> kind, text |-> text, submits |-> submits, prevented |-> prevented]

\* the host renders the SearchBar with new props
SearchBarRendered(p) ==
    /\ sbProps' = p
    /\ sbOut' = SearchBarRender(p, sbInternal)
    /\ sbCalls' = <<>>
    /\ sbEvent' = SearchEvent("render", "", 0, FALSE)
    /\ UNCHANGED sbInternal
    /\ UNCHANGED <<tableVars, buttonVars, debounceVars, formVars, inputVars, truncateVars>>

\* an event handler ran: the state is set and the component renders again
SearchBarHandled(internal, invoked, event) ==
    /\ sbInternal' = internal
    /\ sbOut' = SearchBarRender(sbProps, internal)
    /\ sbCalls' = invoked
    /\ sbEvent' = event
    /\ UNCHANGED sbProps
    /\ UNCHANGED <<tableVars, buttonVars, debounceVars, formVars, inputVars, truncateVars>>

SearchBarInit ==
    /\ sbProps = NoProps
    /\ sbInternal = ""
    /\ sbOut = SearchBarRender(NoProps, "")
    /\ sbCalls = <<>>
    /\ sbEvent = SearchEvent("render", "", 0, FALSE)

SearchBarSetValue == \E v \in ValueProps : SearchBarRendered(With(sbProps, "value", v))

SearchBarSetCallback ==
    \E k \in {"onChange", "onSearch", "onKeyDown"} : SearchBarRendered(With(sbProps, k, k))

SearchBarSetFlag ==
    \E k \in {"showClear", "showButton", "loading"} : \E b \in BOOLEAN :
        SearchBarRendered(With(sbProps, k, b))

SearchBarOmitProp ==
    \E k \in SearchBarOptionalProps \cap DOMAIN sbProps : SearchBarRendered(Without(sbProps, k))

\* the user edits the text of the input
SearchBarChange ==
    \E text \in Texts \ {sbOut.value} :
        \E h \in {HandleChange(sbProps, sbInternal, text)} :
            SearchBarHandled(h.internal, h.calls, SearchEvent("change", text, 0, FALSE))

\* the user activates the clear button
SearchBarClear ==
    /\ sbOut.clearButton
    /\ \E h \in {HandleClear(sbProps, sbInternal)} :
          SearchBarHandled(h.internal, h.calls, SearchEvent("clear", "", 0, FALSE))

\* the user clicks the submit button: a disabled one does nothing, an enabled
\* one submits the form
SearchBarClickSubmit ==
    /\ sbOut.submitButton # <<>>
    /\ ~sbOut.submitButton[1].disabled
    /\ \E h \in {HandleSubmit(sbProps, sbInternal)} :
          SearchBarHandled(sbInternal, h.calls, SearchEvent("click", "", 1, h.prevented))

\* Enter in the input submits the form implicitly: through the submit button
\* unless it is disabled, and directly when the form has no submit button
\* (the search input is its only field; the clear button is type="button")
ImplicitSubmission(out, key) ==
    /\ key = "Enter"
    /\ out.submitButton # <<>> => ~out.submitButton[1].disabled

\* the user presses a key in the input: the key handler on the input runs,
\* then the default action of the key
SearchBarPressKey ==
    \E key \in Keys :
        \E down \in {IF sbOut.onKeyDown = "handleKeyDown"
                     THEN HandleKeyDown(sbProps, sbInternal, key) ELSE <<>>} :
            IF ImplicitSubmission(sbOut, key)
            THEN \E h \in {HandleSubmit(sbProps, sbInternal)} :
                    SearchBarHandled(sbInternal, down \o h.calls,
                                     SearchEvent("key", key, 1, h.prevented))
            ELSE SearchBarHandled(sbInternal, down, SearchEvent("key", key, 0, FALSE))

SearchBarNext ==
    \/ SearchBarSetValue
    \/ SearchBarSetCallback
    \/ SearchBarSetFlag
    \/ SearchBarOmitProp
    \/ SearchBarChange
    \/ SearchBarClear
    \/ SearchBarClickSubmit
    \/ SearchBarPressKey

----------------------------------------------------------------------------
(* The state machine: the host renders the table, re-renders it whenever a *)
(* prop changes, and the user clicks rows                                  *)

\* a render that keeps the clicked row highlighted
RenderedWithSelection(p) ==
    \E r \in {Render(p)} :
       /\ Cardinality(DOMAIN p \cap OptionalProps) <= MaxOptional
       /\ props' = p
       /\ output' = [r.output EXCEPT !.tbody =
                        [i \in 1..Len(r.output.tbody) |->
                            IF clicks # <<>> /\ clicks[1].index = i - 1
                            THEN [r.output.tbody[i] EXCEPT !.className = @ \o <<"bg-primary-50">>]
                            ELSE r.output.tbody[i]]]
       /\ calls' = r.calls
       /\ dataReads' = r.reads
       /\ threw' = r.threw
       /\ clicks' = <<>>
       /\ UNCHANGED <<buttonVars, debounceVars, formVars, inputVars, truncateVars, searchVars>>

Rendered(p) ==
    \E r \in {Render(p)} :
       /\ Cardinality(DOMAIN p \cap OptionalProps) <= MaxOptional
       /\ props' = p
       /\ output' = r.output
       /\ calls' = r.calls
       /\ dataReads' = r.reads
       /\ threw' = r.threw
       /\ clicks' = <<>>
       /\ UNCHANGED <<buttonVars, debounceVars, formVars, inputVars, truncateVars, searchVars>>

InitialProps == ("columns" :> <<ColName, ColStatus>>) @@ ("data" :> <<>>)

Init ==
    LET r == Render(InitialProps)
    IN /\ props = InitialProps
       /\ output = r.output
       /\ calls = r.calls
       /\ dataReads = r.reads
       /\ threw = r.threw
       /\ clicks = <<>>
       /\ ButtonInit
       /\ DebounceInit
       /\ FormFieldInit
       /\ InputInit
       /\ TruncateInit
       /\ SearchBarInit

SetColumns == \E c \in ColumnsValues : Rendered(With(props, "columns", c))

SetData == \E d \in DataValues : Rendered(With(props, "data", d))

SetLoading == \E b \in BOOLEAN : Rendered(With(props, "loading", b))

SetEmptyState == \E e \in {"", "Nothing here"} : Rendered(With(props, "emptyState", e))

SetBordered == \E b \in BOOLEAN : Rendered(With(props, "bordered", b))

SetStriped == \E b \in BOOLEAN : Rendered(With(props, "striped", b))

SetHoverable == \E b \in BOOLEAN : Rendered(With(props, "hoverable", b))

SetGetRowKey == Rendered(With(props, "getRowKey", "byName"))

SetOnRowClick == Rendered(With(props, "onRowClick", "select"))

OmitProp == \E k \in OptionalProps \cap DOMAIN props : Rendered(Without(props, k))

\* onClick={() => onRowClick?.(row, index)} of the row at position index
RowClick ==
    \E i \in 1..Len(output.tbody) :
        /\ output.tbody[i].onClick.attached
        /\ clicks' = output.tbody[i].onClick.invokes
        /\ UNCHANGED <<props, output, calls, dataReads, threw>>
        /\ UNCHANGED <<buttonVars, debounceVars, formVars, inputVars, truncateVars, searchVars>>

Next ==
    \/ SetColumns
    \/ SetData
    \/ SetLoading
    \/ SetEmptyState
    \/ SetBordered
    \/ SetStriped
    \/ SetHoverable
    \/ SetGetRowKey
    \/ SetOnRowClick
    \/ OmitProp
    \/ RowClick

Spec == Init /\ [][Next]_vars

SpecButton == Init /\ [][ButtonNext]_vars

SpecDebounce == Init /\ [][DebounceNext]_vars

SpecFormField == Init /\ [][FormFieldNext]_vars

SpecInput == Init /\ [][InputNext]_vars

SpecTruncate == Init /\ [][TruncateNext]_vars

SpecSearchBar == Init /\ [][SearchBarNext]_vars

\* the event loop keeps running: time passes and a timeout that is due is run
FairSpecDebounce == SpecDebounce /\ WF_vars(DebounceTick) /\ WF_vars(DebounceFire)

----------------------------------------------------------------------------
(* What the last render shows *)

Body == output.tbody

Columns == props.columns

Data == props.data

ShowsLoading == Body # <<>> /\ \A i \in 1..Len(Body) : Body[i].type = "SkeletonRow"

ShowsEmpty == Len(Body) = 1 /\ Body[1].type = "tr" /\ ~Body[1].onClick.attached

ShowsPopulated ==
    Body # <<>> /\ \A i \in 1..Len(Body) : Body[i].type = "tr" /\ Body[i].onClick.attached

IsLoading == Loading(props)

IsEmptyData == ~Loading(props) /\ Len(Data) = 0

IsPopulated == ~Loading(props) /\ Len(Data) >= 1

----------------------------------------------------------------------------
(* Claims *)

\* C1: the body is in exactly one of the three display states, Loading iff
\* loading, Empty iff not loading and data is empty, Populated iff not
\* loading and data has at least one row.
C1_ExactlyOneDisplayState ==
    /\ ShowsLoading <=> IsLoading
    /\ ShowsEmpty <=> IsEmptyData
    /\ ShowsPopulated <=> IsPopulated
    /\ ShowsLoading \/ ShowsEmpty \/ ShowsPopulated
    /\ ~(ShowsLoading /\ ShowsEmpty)
    /\ ~(ShowsLoading /\ ShowsPopulated)
    /\ ~(ShowsEmpty /\ ShowsPopulated)

C1_Witness == ShowsEmpty /\ "loading" \in DOMAIN props /\ Len(Columns) = 0

\* C2: while loading the body is exactly 5 placeholder rows of columns.length
\* placeholder cells each, whatever data holds.
C2_FiveSkeletonRows ==
    IsLoading =>
        /\ Len(Body) = 5
        /\ \A i \in 1..Len(Body) :
              /\ Body[i].type = "SkeletonRow"
              /\ Len(Body[i].cells) = Len(Columns)
              /\ \A j \in 1..Len(Body[i].cells) :
                    Body[i].cells[j].children = Node("div", "animate-pulse")

C2_Witness == IsLoading /\ Len(Data) = MaxRows /\ Len(Columns) >= 2 /\ Len(Body) = 5

\* C3: while loading a render reads nothing of data and invokes no accessor,
\* cell renderer or getRowKey, and its output is the same for every data.
C3_LoadingIgnoresData ==
    IsLoading =>
        /\ dataReads = {}
        /\ calls = <<>>
        /\ \A d \in DataValues : Render(With(props, "data", d)).output = output

C3_Witness ==
    /\ IsLoading
    /\ Len(Data) >= 1
    /\ "getRowKey" \in DOMAIN props
    /\ \E j \in 1..Len(Columns) : Columns[j].cell # "" /\ Columns[j].accessor.kind = "fn"

\* C4: not loading and data empty: the body is one row of one cell whose
\* colSpan is columns.length, showing the supplied emptyState or the default
\* message 'No data available'.
C4_EmptyRow ==
    IsEmptyData =>
        /\ Len(Body) = 1
        /\ Len(Body[1].cells) = 1
        /\ Body[1].cells[1].colSpan = Len(Columns)
        /\ \/ Body[1].cells[1].children = Node("div", "No data available")
           \/ /\ "emptyState" \in DOMAIN props
              /\ Body[1].cells[1].children = Node("emptyState", props.emptyState)

C4_Witness ==
    /\ IsEmptyData
    /\ Len(Columns) >= 3
    /\ "emptyState" \in DOMAIN props
    /\ Body[1].cells[1].children = Node("emptyState", "Nothing here")

\* C5: not loading and N >= 1 rows: the body has N rows, the i-th built from
\* data[i], each with one cell per column in column order.
C5_RowsInDataOrder ==
    IsPopulated =>
        /\ Len(Body) = Len(Data)
        /\ \A i \in 1..Len(Body) :
              /\ Len(Body[i].cells) = Len(Columns)
              /\ \A j \in 1..Len(Columns) :
                    /\ Body[i].cells[j].key = Columns[j].id
                    /\ Body[i].cells[j].children = RenderCell(Data[i], Columns[j], i - 1).node

C5_Witness ==
    /\ IsPopulated
    /\ Len(Data) = 2
    /\ Data[1] # Data[2]
    /\ Len(Columns) >= 2
    /\ Body[1].cells # Body[2].cells

\* the cell invocations of the last render
CellCalls == {k \in 1..Len(calls) : calls[k].fn = "cell"}

\* what the accessor step is specified to yield for a row and a column
AccessorStep(row, column) ==
    CASE column.accessor.kind = "fn" -> ApplyAccessor(column.accessor.arg, row)
      [] column.accessor.kind = "key" -> Lookup(row, column.accessor.arg)
      [] column.accessor.kind = "none" -> JSNull

\* C6: every column with a cell renderer shows, for the row at position i,
\* cell({value, row, index}) with value the accessor step's value (accessor(row),
\* row[key], or null without accessor), row = data[i] and index = i.
C6_CellReceivesAccessorValue ==
    IsPopulated =>
        \A i \in 1..Len(Data) : \A j \in 1..Len(Columns) :
            Columns[j].cell # "" =>
                /\ \E k \in CellCalls :
                      calls[k] = Call("cell", Columns[j].cell, Columns[j].id, Data[i], i - 1,
                                      AccessorStep(Data[i], Columns[j]))
                /\ Body[i].cells[j].children =
                      ApplyCell(Columns[j].cell, AccessorStep(Data[i], Columns[j]), Data[i], i - 1)

\* C7: a column with only a field-key accessor shows row[key] for every row
\* and every key that is a field name of the row type.
C7_FieldKeyValue ==
    IsPopulated =>
        \A i \in 1..Len(Data) : \A j \in 1..Len(Columns) :
            (Columns[j].accessor.kind = "key" /\ Columns[j].cell = "") =>
                Body[i].cells[j].children = Node("value", Lookup(Data[i], Columns[j].accessor.arg))

\* C8: a column with a function accessor and no cell renderer shows
\* accessor(row) for every row.
C8_FunctionAccessorValue ==
    IsPopulated =>
        \A i \in 1..Len(Data) : \A j \in 1..Len(Columns) :
            (Columns[j].accessor.kind = "fn" /\ Columns[j].cell = "") =>
                Body[i].cells[j].children =
                    Node("value", ApplyAccessor(Columns[j].accessor.arg, Data[i]))

C8_Witness ==
    /\ IsPopulated
    /\ \E j \in 1..Len(Columns) :
          /\ Columns[j] = ColLabel
          /\ Body[1].cells[j].children.value \in {"on", "off"}

\* C9: a column with neither cell nor accessor resolves to null for every
\* row, and its cell is still emitted, so the row keeps one cell per column.
C9_NoAccessorNoCellIsNull ==
    IsPopulated =>
        \A i \in 1..Len(Data) :
            /\ Len(Body[i].cells) = Len(Columns)
            /\ \A j \in 1..Len(Columns) :
                  (Columns[j].accessor.kind = "none" /\ Columns[j].cell = "") =>
                      /\ Body[i].cells[j].key = Columns[j].id
                      /\ Body[i].cells[j].children = Node("value", JSNull)

C9_Witness ==
    /\ IsPopulated
    /\ \E j \in 1..Len(Columns) : Columns[j] = ColBlank /\ Body[1].cells[j].children.value = JSNull

\* the accessor of the column names a key the row lacks, or is a function
\* that returns undefined for the row
Unresolvable(row, column) ==
    \/ column.accessor.kind = "key" /\ column.accessor.arg \notin DOMAIN row
    \/ column.accessor.kind = "fn" /\ ApplyAccessor(column.accessor.arg, row) = JSUndefined

\* C10: cell resolution never raises: a key missing from the row or a
\* function accessor returning undefined gives falsy content, and every row
\* and every other cell is rendered.
C10_ResolutionNeverRaises ==
    /\ ~threw
    /\ IsPopulated =>
          /\ Len(Body) = Len(Data)
          /\ \A i \in 1..Len(Body) :
                /\ Len(Body[i].cells) = Len(Columns)
                /\ \A j \in 1..Len(Columns) :
                      (Unresolvable(Data[i], Columns[j]) /\ Columns[j].cell = "") =>
                          ~Truthy(Body[i].cells[j].children.value)

C10_Witness ==
    /\ IsPopulated
    /\ ~threw
    /\ Len(Body) = 2
    /\ \E j \in 1..Len(Columns) : Columns[j] = ColZip /\ Unresolvable(Data[1], Columns[j])
    /\ \E j \in 1..Len(Columns) : Columns[j] = ColNothing /\ Unresolvable(Data[2], Columns[j])

----------------------------------------------------------------------------
(* Row keys, row clicks, style flags, purity, defaults *)

HasClass(className, c) == \E k \in 1..Len(className) : className[k] = c

\* C11 (state part): in the Populated state the key of the i-th row is
\* getRowKey(data[i], i) when getRowKey is supplied and the position i otherwise.
C11_KeyOfEachRow ==
    IsPopulated =>
        \A i \in 1..Len(Data) :
            IF "getRowKey" \in DOMAIN props
            THEN /\ Body[i].key = Lookup(Data[i], "name")
                 /\ \E k \in 1..Len(calls) :
                       calls[k] = Call("getRowKey", props.getRowKey, "", Data[i], i - 1, "")
            ELSE Body[i].key = ToStr(i - 1)

\* C11 (step part): without getRowKey, a re-render with the rows in another
\* order leaves every key at its position.
C11_KeysStayAtPositions ==
    (/\ IsPopulated /\ IsPopulated'
     /\ "getRowKey" \notin DOMAIN props /\ "getRowKey" \notin DOMAIN props'
     /\ Len(Data') = Len(Data))
    => \A i \in 1..Len(Data) : Body'[i].key = Body[i].key

\* C11: the row key is getRowKey(data[i], i) when supplied and the positional
\* index otherwise; without getRowKey, reordering data between two renders
\* leaves every key attached to its position, not to its item.
C11_RowKeyPolicy == []C11_KeyOfEachRow /\ [][C11_KeysStayAtPositions]_vars

C11_Witness ==
    /\ IsPopulated
    /\ "getRowKey" \in DOMAIN props
    /\ Len(Data) = 2
    /\ Body[1].key = "Bob"
    /\ Body[2].key = "Alice"

\* C12 (state part): the handler of the i-th row, when run, invokes onRowClick
\* once with (data[i], i) if it is supplied and invokes nothing otherwise.
C12_HandlerOfEachRow ==
    IsPopulated =>
        \A i \in 1..Len(Data) :
            /\ Body[i].onClick.attached
            /\ Body[i].onClick.invokes =
                  IF "onRowClick" \in DOMAIN props
                  THEN <<Call("onRowClick", props.onRowClick, "", Data[i], i - 1, "")>>
                  ELSE <<>>

\* C12 (step part): a click makes at most the one invocation and changes
\* nothing a render shows: the next render of the same props is the same tree.
C12_ClickLeavesRenderAlone ==
    RowClick =>
        /\ Len(clicks') = IF "onRowClick" \in DOMAIN props THEN 1 ELSE 0
        /\ output' = output
        /\ props' = props
        /\ Render(props').output = output

\* C12: clicking the row at position i invokes onRowClick exactly once with
\* (data[i], i) when it is supplied and does nothing otherwise; after any
\* clicks the output of the next render is unchanged.
C12_RowClickPassThrough == []C12_HandlerOfEachRow /\ [][C12_ClickLeavesRenderAlone]_vars

C12_Witness ==
    /\ IsPopulated
    /\ Len(Data) = 2
    /\ clicks = <<Call("onRowClick", "select", "", Data[2], 1, "")>>

FlagProps == {"bordered", "striped", "hoverable"}

\* the step changes nothing of the props but style flags
OnlyFlagsChange ==
    /\ props' # props
    /\ \A k \in (DOMAIN props \cup DOMAIN props') \ FlagProps :
          /\ k \in DOMAIN props
          /\ k \in DOMAIN props'
          /\ props'[k] = props[k]

\* the tree without its class names
Structure(out) ==
    [thead |-> [j \in 1..Len(out.thead) |->
                   [key |-> out.thead[j].key, children |-> out.thead[j].children]],
     tbody |-> [i \in 1..Len(out.tbody) |->
                   [type |-> out.tbody[i].type,
                    key |-> out.tbody[i].key,
                    onClick |-> out.tbody[i].onClick,
                    cells |-> [j \in 1..Len(out.tbody[i].cells) |->
                                  [key |-> out.tbody[i].cells[j].key,
                                   colSpan |-> out.tbody[i].cells[j].colSpan,
                                   children |-> out.tbody[i].cells[j].children]]]]]

C13_FlagStepKeepsStructure ==
    OnlyFlagsChange =>
        /\ Structure(output') = Structure(output)
        /\ calls' = calls
        /\ dataReads' = dataReads
        /\ threw' = threw

\* C13: striped, hoverable and bordered change only style classes: with the
\* other props fixed, the display state, the rows and their order, the row
\* keys, the cells per row and every cell's content stay the same.
C13_FlagsOnlyStyle == [][C13_FlagStepKeepsStructure]_vars

C13_Witness ==
    /\ IsPopulated
    /\ Len(Data) = 2
    /\ Len(Columns) >= 2
    /\ Striped(props)
    /\ Bordered(props)
    /\ HasClass(Body[2].className, "bg-neutral-50")
    /\ HasClass(Body[2].cells[1].className, "border-r")

C14_OutputIsRenderOfProps ==
    \E r \in {Render(props)} :
        /\ output = r.output
        /\ calls = r.calls
        /\ dataReads = r.reads
        /\ threw = r.threw

C15_NoColumns ==
    Len(Columns) = 0 =>
        /\ Len(output.thead) = 0
        /\ IsLoading => (Len(Body) = 5 /\ \A i \in 1..Len(Body) : Body[i].cells = <<>>)
        /\ IsEmptyData =>
              (Len(Body) = 1 /\ Len(Body[1].cells) = 1 /\ Body[1].cells[1].colSpan = 0)
        /\ IsPopulated => (Len(Body) = Len(Data) /\ \A i \in 1..Len(Body) : Body[i].cells = <<>>)
        /\ \A k \in 1..Len(calls) : calls[k].fn \notin {"accessor", "cell"}

C15_Witness == Len(Columns) = 0 /\ IsLoading /\ Len(Body) = 5 /\ Len(Data) = 2

\* the render of the current props with prop k passed explicitly as v is the last render
SameAsWith(k, v) ==
    \E r \in {Render(With(props, k, v))} :
        /\ output = r.output
        /\ calls = r.calls
        /\ dataReads = r.reads

\* C16: an omitted loading behaves as loading=false (the state follows
\* data.length alone), omitted style flags behave as bordered=false,
\* striped=false, hoverable=true.
C16_OmittedPropsTakeDefaults ==
    /\ "loading" \notin DOMAIN props =>
          /\ SameAsWith("loading", FALSE)
          /\ ShowsEmpty <=> Len(Data) = 0
          /\ ShowsPopulated <=> Len(Data) >= 1
    /\ "bordered" \notin DOMAIN props => SameAsWith("bordered", FALSE)
    /\ "striped" \notin DOMAIN props => SameAsWith("striped", FALSE)
    /\ "hoverable" \notin DOMAIN props => SameAsWith("hoverable", TRUE)

C16_Witness ==
    /\ DOMAIN props \cap {"loading", "bordered", "striped", "hoverable"} = {}
    /\ Len(Data) = 2
    /\ ShowsPopulated
    /\ HasClass(Body[2].className, "hover:bg-neutral-50")
    /\ ~HasClass(Body[2].className, "bg-neutral-50")

\* the content of the single cell of the empty row
EmptyCellContent == Body[1].cells[1].children

\* C22: in the empty state the default message 'No data available' is shown
\* exactly when the caller supplied no emptyState, and every supplied
\* emptyState is what the cell shows.
C22_DefaultOnlyWithoutEmptyState ==
    IsEmptyData =>
        /\ (EmptyCellContent = Node("div", "No data available"))
              <=> ("emptyState" \notin DOMAIN props)
        /\ ("emptyState" \in DOMAIN props)
              => (EmptyCellContent = Node("emptyState", props.emptyState))

\* the accessor invocations of the last render for a row and a column
AccessorCallsFor(row, column) ==
    {k \in 1..Len(calls) :
        calls[k].fn = "accessor" /\ calls[k].column = column.id /\ calls[k].row = row}

\* the cell renderer invocations of the last render for a position and a column
CellCallsFor(i, column) ==
    {k \in CellCalls :
        calls[k].column = column.id /\ calls[k].row = Data[i] /\ calls[k].index = i - 1}

\* the positions up to n that hold the same row as position i
SameRowUpTo(i, n) == {m \in 1..n : Data[m] = Data[i]}

\* C30: in a populated render the accessor function of a column is invoked
\* once for every row, also when the column has a cell renderer; the cell
\* renderer is invoked once for every row, after the accessor of that row
\* and column; nothing is invoked for a pair outside data x columns.
C30_OnceForEachRowAndColumn ==
    IsPopulated =>
        /\ \A i \in 1..Len(Data) : \A j \in 1..Len(Columns) :
              /\ Cardinality(AccessorCallsFor(Data[i], Columns[j])) =
                    IF Columns[j].accessor.kind = "fn"
                    THEN Cardinality(SameRowUpTo(i, Len(Data))) ELSE 0
              /\ Cardinality(CellCallsFor(i, Columns[j])) = IF Columns[j].cell # "" THEN 1 ELSE 0
              /\ \A k \in CellCallsFor(i, Columns[j]) :
                    Columns[j].accessor.kind = "fn" =>
                        Cardinality({a \in AccessorCallsFor(Data[i], Columns[j]) : a < k})
                            = Cardinality(SameRowUpTo(i, i))
        /\ \A k \in 1..Len(calls) :
              calls[k].fn \in {"accessor", "cell"} =>
                  /\ \E j \in 1..Len(Columns) : Columns[j].id = calls[k].column
                  /\ \E i \in 1..Len(Data) : Data[i] = calls[k].row
                  /\ calls[k].fn = "cell" => calls[k].index \in 0..(Len(Data) - 1)

C30_Witness ==
    /\ IsPopulated
    /\ Len(Data) = 2
    /\ Data[1] = Data[2]
    /\ \E j \in 1..Len(Columns) : Columns[j] = ColLabelCell
    /\ Cardinality(AccessorCallsFor(Data[1], ColLabelCell)) = 2
    /\ Cardinality(CellCallsFor(2, ColLabelCell)) = 1

----------------------------------------------------------------------------
(* Button claims *)

\* C17: while disabled or loading is true a click never invokes onClick, and
\* while both are false each click invokes it exactly once, whatever the
\* other props (asChild included).
C17_ClickOnlyWhenEnabled ==
    (btnEvent = "click" /\ "onClick" \in DOMAIN btnProps) =>
        Len(btnClicks) = IF IsDisabled(btnProps) THEN 0 ELSE 1

\* C18: in every render the element is disabled and has aria-disabled=true
\* exactly when disabled or loading, has aria-busy=true exactly when loading,
\* and contains a spinner exactly when loading.
C18_DisabledAndBusyAttributes ==
    /\ btnDom.attrs.disabled <=> IsDisabled(btnProps)
    /\ ("ariaDisabled" \in DOMAIN btnDom.attrs /\ btnDom.attrs.ariaDisabled = "true")
          <=> IsDisabled(btnProps)
    /\ ("ariaBusy" \in DOMAIN btnDom.attrs /\ btnDom.attrs.ariaBusy = "true")
          <=> Prop(btnProps, "loading", FALSE)
    /\ (\E k \in 1..Len(btnDom.content) : btnDom.content[k].tag = "Spinner")
          <=> Prop(btnProps, "loading", FALSE)

----------------------------------------------------------------------------
(* debounce claims *)

Calls == {i \in 1..Len(dbLog) : dbLog[i].kind = "call"}

Invocations == {i \in 1..Len(dbLog) : dbLog[i].kind = "invoke"}

\* the most recent call of the debounced function before event i
LatestCallBefore(i) == CHOOSE j \in Calls : j < i /\ \A k \in Calls : k < i => k <= j

\* every invocation of func comes from the most recent call, no sooner than
\* wait after it and with its arguments, and no call is invoked twice
C19_InvokedAfterWait ==
    \A i \in Invocations :
        /\ \E j \in Calls : j < i
        /\ dbLog[i].id = dbLog[LatestCallBefore(i)].id
        /\ dbLog[i].args = dbLog[LatestCallBefore(i)].args
        /\ dbLog[i].time >= dbLog[LatestCallBefore(i)].time + dbWait
        /\ \A k \in Invocations : dbLog[k].id = dbLog[i].id => k = i

C19_AtMostOnePending == Cardinality(dbTimers) <= 1

Invoked(n) == \E i \in Invocations : dbLog[i].id = n

\* the call numbered n is invoked unless a later call replaces it
C19_LastCallInvoked ==
    \A n \in 1..MaxCalls : (dbTimeoutId = n) ~> (Invoked(n) \/ dbTimeoutId > n)

\* C19: func runs only once wait milliseconds have passed since the most
\* recent call of the debounced function, a call followed by another call
\* causes no invocation of its own, the last call of a burst is eventually
\* invoked exactly once with its arguments, and at most one invocation is
\* pending at any time.
C19_Debounce ==
    /\ [](C19_InvokedAfterWait /\ C19_AtMostOnePending)
    /\ C19_LastCallInvoked

\* two calls less than wait apart, then one invocation, of the second call
C19_Witness ==
    /\ Len(dbLog) = 3
    /\ dbLog[1].kind = "call" /\ dbLog[2].kind = "call" /\ dbLog[3].kind = "invoke"
    /\ dbLog[2].time - dbLog[1].time < dbWait
    /\ dbLog[1].args # dbLog[2].args
    /\ dbLog[3].args = dbLog[2].args
    /\ dbTimers = {}

----------------------------------------------------------------------------
(* FormField claims *)

SingleElementChild == Len(ffProps.children) = 1 /\ IsValidElement(ffProps.children[1])

ErrorGiven == Truthy(Prop(ffProps, "error", JSUndefined))

ErrorAbsent == "error" \notin DOMAIN ffProps

\* the error paragraphs of the output: role=alert
ErrorParagraphs == {i \in 1..Len(ffOut.error) : ffOut.error[i].props.role = "alert"}

\* C20: with a non-empty error and one valid element child, the child has
\* aria-invalid=true and an aria-describedby naming the error paragraph, and
\* that paragraph (role=alert, id inputId + "-error") is rendered; with no
\* error the child has aria-invalid=false and no error paragraph is rendered.
C20_ErrorReachesChild ==
    SingleElementChild =>
       /\ ErrorGiven =>
            /\ ffOut.children[1].props.ariaInvalid = TRUE
            /\ "ariaDescribedby" \in DOMAIN ffOut.children[1].props
            /\ \E i \in ErrorParagraphs :
                  /\ ffOut.error[i].props.id = InputId(ffProps) \o "-error"
                  /\ \E k \in 1..Len(ffOut.children[1].props.ariaDescribedby) :
                        ffOut.children[1].props.ariaDescribedby[k] = ffOut.error[i].props.id
       /\ ErrorAbsent =>
            /\ ffOut.children[1].props.ariaInvalid = FALSE
            /\ ErrorParagraphs = {}

----------------------------------------------------------------------------
(* Input claims *)

InputErrorGiven == Truthy(Prop(inProps, "error", JSUndefined))

\* the position of the <input> in the output
InputAt == CHOOSE i \in 1..Len(inOut) : inOut[i].type = "input"

\* the elements after the input that show the error text
ErrorMessagesBelow ==
    {j \in 1..Len(inOut) :
        /\ j > InputAt
        /\ "text" \in DOMAIN inOut[j].props
        /\ inOut[j].props.text = inProps.error}

\* C21: an Input with an error string shows the error message below the
\* input, has aria-invalid=true, and its aria-describedby names the element
\* that shows the message.
C21_InputShowsError ==
    InputErrorGiven =>
        /\ inOut[InputAt].props.ariaInvalid = TRUE
        /\ "ariaDescribedby" \in DOMAIN inOut[InputAt].props
        /\ \E j \in ErrorMessagesBelow :
              /\ "id" \in DOMAIN inOut[j].props
              /\ \E k \in 1..Len(inOut[InputAt].props.ariaDescribedby) :
                    inOut[InputAt].props.ariaDescribedby[k] = inOut[j].props.id

----------------------------------------------------------------------------
(* truncate claims *)

\* the first n characters of str
FirstChars(str, n) == SubSeq(str, 1, IF n > Len(str) THEN Len(str) ELSE n)

\* C23: truncate returns str unchanged when str.length <= length, otherwise
\* the first length characters of str, trimmed, followed by '...'; the result
\* never holds more than length characters of the original text (none of
\* them for a length below 0).
C23_TruncateToLength ==
    IF Len(trStr) <= trLength
    THEN trResult = trStr
    ELSE /\ trResult = Trim(FirstChars(trStr, trLength)) \o Ellipsis
         /\ Len(trResult) - Len(Ellipsis) <= (IF trLength < 0 THEN 0 ELSE trLength)

----------------------------------------------------------------------------
(* SearchBar claims *)

Uncontrolled == "value" \notin DOMAIN sbProps

Controlled == "value" \in DOMAIN sbProps

C24_ValueOfLastEvent ==
    Uncontrolled =>
        /\ sbEvent.kind = "change" => sbOut.value = sbEvent.text
        /\ sbEvent.kind = "clear" => sbOut.value = ""

C24_SubmitAndKeysKeepValue ==
    (Uncontrolled /\ Uncontrolled' /\ sbEvent'.kind \notin {"change", "clear"})
        => sbOut'.value = sbOut.value

\* C24: uncontrolled, the displayed value starts as '', is the text of the
\* most recent change event or '' after a clear, and no submit or key event
\* changes it.
C24_UncontrolledValue ==
    /\ sbOut.value = ""
    /\ []C24_ValueOfLastEvent
    /\ [][C24_SubmitAndKeysKeepValue]_vars

C24_Witness ==
    /\ Uncontrolled
    /\ sbEvent.kind = "key"
    /\ sbOut.value = "ab"
    /\ sbOut.clearButton

C25_DisplaysValueProp == Controlled => sbOut.value = StringOf(sbProps.value)

C25_OnChangeOncePerEvent ==
    "onChange" \in DOMAIN sbProps =>
        /\ sbEvent.kind = "change" => sbCalls = <<SearchCall("onChange", sbEvent.text, "change")>>
        /\ sbEvent.kind = "clear" => sbCalls = <<SearchCall("onChange", "", "clear")>>

C25_InternalValueKept ==
    (Controlled /\ sbEvent'.kind \in {"change", "clear"}) => sbInternal' = sbInternal

\* C25: controlled, no change or clear event modifies the internal value and
\* the displayed value is String(value); in both modes a change event calls
\* onChange once with the typed text and a clear calls it once with ''.
C25_ControlledValue ==
    /\ [](C25_DisplaysValueProp /\ C25_OnChangeOncePerEvent)
    /\ [][C25_InternalValueKept]_vars

C25_Witness ==
    /\ Controlled
    /\ sbProps.value = NumberValue(0)
    /\ sbEvent.kind = "change"
    /\ sbEvent.text = "ab"
    /\ sbCalls # <<>>
    /\ sbOut.value = "0"
    /\ sbInternal = "a"

\* C26: the clear button is rendered exactly when showClear is true and the
\* displayed value is not empty; uncontrolled, after the clear button is
\* activated the displayed value is '' and the button is gone.
C26_ClearButton ==
    /\ sbOut.clearButton <=> (Prop(sbProps, "showClear", FALSE) /\ sbOut.value # "")
    /\ (Uncontrolled /\ sbEvent.kind = "clear") => (sbOut.value = "" /\ ~sbOut.clearButton)

C26_Witness ==
    /\ Uncontrolled
    /\ sbEvent.kind = "clear"
    /\ Prop(sbProps, "showClear", FALSE)
    /\ ~sbOut.clearButton

OnSearchCalls == {k \in 1..Len(sbCalls) : sbCalls[k].fn = "onSearch"}

\* C27: each form submit calls onSearch once with the displayed value and
\* prevents the default action; an Enter keydown calls onSearch exactly when
\* showButton is false; no other key and no change or clear calls it; one
\* user submission reports the search to onSearch exactly once.
C27_SubmitReportsOnce ==
    "onSearch" \in DOMAIN sbProps =>
        /\ Cardinality({k \in OnSearchCalls : sbCalls[k].via = "submit"}) = sbEvent.submits
        /\ \A k \in OnSearchCalls : sbCalls[k].arg = sbOut.value
        /\ sbEvent.submits > 0 => sbEvent.prevented
        /\ sbEvent.kind = "key" =>
              ((\E k \in OnSearchCalls : sbCalls[k].via = "keydown")
                  <=> (sbEvent.text = "Enter" /\ ~Prop(sbProps, "showButton", FALSE)))
        /\ (sbEvent.kind = "key" /\ sbEvent.text # "Enter") => OnSearchCalls = {}
        /\ sbEvent.kind \in {"render", "change", "clear"} => OnSearchCalls = {}
        /\ (sbEvent.kind = "click" \/ (sbEvent.kind = "key" /\ OnSearchCalls # {}))
              => Cardinality(OnSearchCalls) = 1

----------------------------------------------------------------------------
(* FormField claims, continued *)

ElementChildren == {i \in 1..Len(ffOut.children) : IsValidElement(ffOut.children[i])}

\* the ids of the elements FormField renders
RenderedIds ==
    {ffOut.helper[i].props.id : i \in 1..Len(ffOut.helper)}
    \cup {ffOut.error[i].props.id : i \in 1..Len(ffOut.error)}
    \cup {ffOut.children[i].props.id : i \in ElementChildren}

\* C28: every id in the aria-describedby injected into the child is the id
\* of an element of the same output, and the helper text and the error
\* paragraph are never rendered together.
C28_DescribedByIsRendered ==
    ElementChildren # {} =>
        /\ \A k \in 1..Len(DescribedBy(ffProps)) : DescribedBy(ffProps)[k] \in RenderedIds
        /\ ~(ffOut.helper # <<>> /\ ffOut.error # <<>>)

\* C29: with a label and a valid element child, the Label's htmlFor is the
\* id the enhanced child carries, also when the child has an id of its own.
C29_LabelPointsAtChild ==
    (ffOut.label # <<>> /\ Len(ffOut.children) = 1 /\ ElementChildren # {}) =>
        /\ ffOut.label[1].props.htmlFor = ffOut.children[1].props.id
        /\ ffOut.label[1].props.htmlFor = InputId(ffProps)

====
